---- MODULE Spec2Model ----
(***************************************************************************)
(* Algorithm toolkit of tutorials/2026/02: union-find, the max segment     *)
(* tree, the sum segment tree, the monotonic stack, Dijkstra, BFS, the     *)
(* binary tree traversals, merge sort, KMP search and the two hash maps.   *)
(* Python lists that are indexed are functions over 0..len-1; lists that   *)
(* are only appended to, popped or iterated are sequences.  An operation   *)
(* that can raise returns a record with an err field ("none" when it       *)
(* returns normally).                                                      *)
(***************************************************************************)
EXTENDS Integers, Sequences, FiniteSets, TLC

VARIABLES ufN, parent, ufEdges, ufOp,
          mtArr, mtTree, mtState, mtOp,
          stArr, stTree, stState, stCur, stOp,
          msStack, msPopped, msOp,
          djGraph, djStart, djDist, djPrev, djPrevBound, djPq, djState, djExpanded,
          bfGraph, bfStart, bfQueue, bfVisited, bfOut, bfState,
          trTree, trOp,
          soIn, soOp,
          kmText, kmPattern, kmOp,
          hmSize, hmMap, hmRef, hmOp,
          shSize, shMap, shRef, shOp

ufVars == <<ufN, parent, ufEdges, ufOp>>
mtVars == <<mtArr, mtTree, mtState, mtOp>>
stVars == <<stArr, stTree, stState, stCur, stOp>>
msVars == <<msStack, msPopped, msOp>>
djVars == <<djGraph, djStart, djDist, djPrev, djPrevBound, djPq, djState, djExpanded>>
bfVars == <<bfGraph, bfStart, bfQueue, bfVisited, bfOut, bfState>>
trVars == <<trTree, trOp>>
soVars == <<soIn, soOp>>
kmVars == <<kmText, kmPattern, kmOp>>
hmVars == <<hmSize, hmMap, hmRef, hmOp>>
shVars == <<shSize, shMap, shRef, shOp>>
vars == <<ufVars, mtVars, stVars, msVars, djVars, bfVars, trVars, soVars, kmVars,
          hmVars, shVars>>

(* ------------------------------ bounds -------------------------------- *)
MaxN == 3          \* largest universe of a UnionFind
MaxArrLen == 3     \* longest array a segment tree is built from
MaxDepth == 12     \* call depth at which the interpreter raises RecursionError

Vals == {-2, 0, 1, 3}   \* cell values of the arrays

(* -------------------------- Python list access ------------------------ *)
\* list[i]: 0..len-1 as is, -len..-1 from the end, anything else IndexError
PyInRange(len, i) == i >= -len /\ i <= len - 1

PyIndex(len, i) == IF i < 0 THEN i + len ELSE i

\* len(list)
PyLen(list) == Cardinality(DOMAIN list)

Zeros(len) == [i \in 0..(len - 1) |-> 0]

PyMax(a, b) == IF b > a THEN b ELSE a

PyMin(a, b) == IF b < a THEN b ELSE a

(* ============================ UnionFind =============================== *)
\* UnionFind.__init__
UFNew(n) == [i \in 0..(n - 1) |-> i]

\* A find that climbs to the root and rewrites nothing.
RECURSIVE findNoCompression(_, _)
findNoCompression(p, x) ==
    LET len == PyLen(p) IN
    IF ~PyInRange(len, x) THEN [parent |-> p, ret |-> <<>>, err |-> "IndexError"]
    ELSE LET i == PyIndex(len, x) IN
         IF p[i] # x
         THEN LET r == findNoCompression(p, p[i])
              IN [parent |-> p, ret |-> r.ret, err |-> "none"]
         ELSE [parent |-> p, ret |-> <<p[i]>>, err |-> "none"]

\* UnionFind.find: returns [parent, ret, err]; path compression rewrites
\* parent[x] for every x on the chain.
RECURSIVE find(_, _)
find(p, x) ==
    LET len == PyLen(p) IN
    IF ~PyInRange(len, x) THEN [parent |-> p, ret |-> <<>>, err |-> "IndexError"]
    ELSE LET i == PyIndex(len, x) IN
         IF p[i] # x
         THEN LET r == find(p, p[i])
                  q == [r.parent EXCEPT ![i] = r.ret[1]]
              IN [parent |-> q, ret |-> <<q[i]>>, err |-> "none"]
         ELSE [parent |-> p, ret |-> <<p[i]>>, err |-> "none"]

\* A union that hangs x itself, not its root, under the root of y.
unionAttachesX(p, x, y) ==
    LET rx == find(p, x) IN
    IF rx.err # "none" THEN [parent |-> rx.parent, err |-> rx.err]
    ELSE LET ry == find(rx.parent, y) IN
         IF ry.err # "none" THEN [parent |-> ry.parent, err |-> ry.err]
         ELSE IF rx.ret[1] # ry.ret[1]
              THEN [parent |-> [ry.parent EXCEPT ![PyIndex(PyLen(p), x)] = ry.ret[1]],
                    err |-> "none"]
              ELSE [parent |-> ry.parent, err |-> "none"]

\* A union that hangs the root of y under the root of x.
unionReversed(p, x, y) ==
    LET rx == find(p, x) IN
    IF rx.err # "none" THEN [parent |-> rx.parent, err |-> rx.err]
    ELSE LET ry == find(rx.parent, y) IN
         IF ry.err # "none" THEN [parent |-> ry.parent, err |-> ry.err]
         ELSE IF rx.ret[1] # ry.ret[1]
              THEN [parent |-> [ry.parent EXCEPT ![ry.ret[1]] = rx.ret[1]],
                    err |-> "none"]
              ELSE [parent |-> ry.parent, err |-> "none"]

\* A union that links its arguments without looking for their roots.
unionLinksArguments(p, x, y) ==
    IF ~PyInRange(PyLen(p), x) \/ ~PyInRange(PyLen(p), y)
    THEN [parent |-> p, err |-> "IndexError"]
    ELSE IF x # y
         THEN [parent |-> [p EXCEPT ![PyIndex(PyLen(p), x)] = y], err |-> "none"]
         ELSE [parent |-> p, err |-> "none"]

\* UnionFind.union: returns [parent, err]
union(p, x, y) ==
    LET rx == find(p, x) IN
    IF rx.err # "none" THEN [parent |-> rx.parent, err |-> rx.err]
    ELSE LET ry == find(rx.parent, y) IN
         IF ry.err # "none" THEN [parent |-> ry.parent, err |-> ry.err]
         ELSE IF rx.ret[1] # ry.ret[1]
              THEN [parent |-> [ry.parent EXCEPT ![rx.ret[1]] = ry.ret[1]],
                    err |-> "none"]
              ELSE [parent |-> ry.parent, err |-> "none"]

\* ids a caller passes: the universe, and with wild = TRUE also -n-1..n
UFIds(wild) == IF wild THEN (-(ufN + 1))..ufN ELSE 0..(ufN - 1)

UFFind(wild) ==
    \E x \in UFIds(wild) :
        LET r == find(parent, x) IN
        /\ parent' = r.parent
        /\ ufOp' = [op |-> "find", x |-> x, y |-> x, ret |-> r.ret, err |-> r.err,
                    before |-> parent]
        /\ UNCHANGED <<ufN, ufEdges>>

UFUnion(wild) ==
    \E x \in UFIds(wild), y \in UFIds(wild) :
        LET r == union(parent, x, y) IN
        /\ parent' = r.parent
        \* the reference graph over the universe; union(x, x) adds no edge
        /\ ufEdges' = IF {x, y} \subseteq DOMAIN parent /\ x # y
                      THEN ufEdges \cup {{x, y}} ELSE ufEdges
        /\ ufOp' = [op |-> "union", x |-> x, y |-> y, ret |-> <<>>, err |-> r.err,
                    before |-> parent]
        /\ UNCHANGED ufN

UFInit ==
    /\ ufN \in 0..MaxN
    /\ parent = UFNew(ufN)
    /\ ufEdges = {}
    /\ ufOp = [op |-> "new", x |-> 0, y |-> 0, ret |-> <<>>, err |-> "none",
               before |-> parent]

UFIdle ==
    /\ ufN = 0
    /\ parent = UFNew(0)
    /\ ufEdges = {}
    /\ ufOp = [op |-> "new", x |-> 0, y |-> 0, ret |-> <<>>, err |-> "none",
               before |-> parent]


(* ---------------------- union-find: the claims ------------------------ *)
\* the root the parent links lead to from x, read without rewriting anything
RECURSIVE Root(_, _)
Root(p, x) == IF p[x] = x THEN x ELSE Root(p, p[x])

\* reference connected components: the ids reachable from S over edges E
RECURSIVE Reach(_, _)
Reach(E, S) ==
    LET T == S \cup {v \in UNION E : \E e \in E : v \in e /\ e \cap S # {}}
    IN IF T = S THEN S ELSE Reach(E, T)

Partition(p) == {{y \in DOMAIN p : Root(p, y) = Root(p, x)} : x \in DOMAIN p}

RootCount(p) == Cardinality({x \in DOMAIN p : p[x] = x})

\* C1: after any sequence of unions over ids 0..n-1, find(x) == find(y)
\* exactly when y is in the connected component of x in the graph of the
\* pairs passed to union.
C1_FindEqualIffConnected ==
    \A x \in DOMAIN parent, y \in DOMAIN parent :
        LET fx == find(parent, x)
            fy == find(fx.parent, y)
        IN (fx.ret = fy.ret) <=> (y \in Reach(ufEdges, {x}))

\* two ids never passed to union together, joined through a third one
C1_Witness ==
    \E x \in DOMAIN parent, y \in DOMAIN parent :
        /\ x # y /\ {x, y} \notin ufEdges
        /\ y \in Reach(ufEdges, {x})
        /\ find(parent, x).ret = find(parent, y).ret

\* C2: the number of roots never increases: a union of two different sets
\* lowers it by exactly one, every find and every union inside one set
\* leaves it as it was.
C2_RootCountStep ==
    [][ LET before == RootCount(parent)
            after == RootCount(parent')
        IN /\ after <= before
           /\ ufOp'.op = "find" => after = before
           /\ ufOp'.op = "union" =>
                 IF Root(parent, ufOp'.x) # Root(parent, ufOp'.y)
                 THEN after = before - 1
                 ELSE after = before ]_vars

\* a union has merged two sets, one of them a tree of more than one node
C2_Witness ==
    /\ ufOp.op = "union"
    /\ RootCount(parent) = ufN - 2
    /\ \E x \in DOMAIN parent : parent[x] # x /\ parent[parent[x]] # parent[x]

\* C3: union(x, y) inside one set (x == y included) raises nothing and keeps
\* the partition; between two sets it hangs root(x) under root(y), so find(x)
\* afterwards is the former root of y.
C3_UnionEffect ==
    [][ ufOp'.op = "union" =>
          LET rx == Root(parent, ufOp'.x)
              ry == Root(parent, ufOp'.y)
          IN /\ ufOp'.err = "none"
             /\ rx = ry => Partition(parent') = Partition(parent)
             /\ rx # ry => /\ parent'[rx] = ry
                           /\ find(parent', ufOp'.x).ret = <<ry>>
                           /\ Partition(parent') # Partition(parent) ]_vars

\* the last call was a union of two different ids that the earlier unions
\* had already joined
C3_Witness ==
    /\ ufOp.op = "union" /\ ufOp.err = "none"
    /\ ufOp.x # ufOp.y
    /\ ufOp.y \in Reach(ufEdges \ {{ufOp.x, ufOp.y}}, {ufOp.x})

\* C4: union(x, x) raises ValueError.
C4_SelfUnionRaises ==
    (ufOp.op = "union" /\ ufOp.x = ufOp.y) => ufOp.err = "ValueError"

\* C5: find and union with an id outside 0..n-1 fail with an error, leave
\* the parent mapping as it was and report no set for that id.
C5_OutOfUniverseFails ==
    [][ (ufOp'.op \in {"find", "union"} /\ ~({ufOp'.x, ufOp'.y} \subseteq DOMAIN parent)) =>
          /\ ufOp'.err # "none"
          /\ ufOp'.ret = <<>>
          /\ parent' = parent ]_vars

\* the nodes on the parent chain from x up to its root
RECURSIVE Chain(_, _)
Chain(p, x) == IF p[x] = x THEN {x} ELSE {x} \cup Chain(p, p[x])

\* C25: find(x) returns the root r of x's tree; afterwards every node that
\* was on the parent chain from x to r has parent r, every other parent is
\* as before, and the partition into sets is the same.
C25_FindCompressesPath ==
    [][ (ufOp'.op = "find" /\ ufOp'.x \in DOMAIN parent) =>
          LET r == Root(parent, ufOp'.x)
              chain == Chain(parent, ufOp'.x)
          IN /\ ufOp'.ret = <<r>>
             /\ \A v \in DOMAIN parent :
                   parent'[v] = IF v \in chain THEN r ELSE parent[v]
             /\ Partition(parent') = Partition(parent) ]_vars

\* a find from the bottom of a chain of three: the bottom node moved to the
\* root
C25_Witness ==
    /\ ufOp.op = "find" /\ ufOp.err = "none"
    /\ ufOp.before[ufOp.before[ufOp.x]] # ufOp.before[ufOp.x]
    /\ ufOp.before[ufOp.x] # ufOp.x
    /\ parent[ufOp.x] = ufOp.ret[1]
    /\ parent[ufOp.x] # ufOp.before[ufOp.x]

\* the node k parent links above x
RECURSIVE Climb(_, _, _)
Climb(p, x, k) == IF k = 0 THEN x ELSE Climb(p, p[x], k - 1)

\* C26: in every state reached by finds and unions over 0..n-1 the parent
\* links form a forest: parents stay in 0..n-1 and from every element at
\* most n links lead to an element that is its own parent.
C26_ParentForest ==
    \A x \in DOMAIN parent :
        /\ parent[x] \in DOMAIN parent
        /\ \E k \in 0..ufN : parent[Climb(parent, x, k)] = Climb(parent, x, k)

\* a tree of depth two and, in the same state, nothing cyclic
C26_Witness ==
    /\ ufN = 3
    /\ \E x \in DOMAIN parent :
          /\ parent[x] # x
          /\ parent[parent[x]] # parent[x]
          /\ parent[parent[parent[x]]] = parent[parent[x]]

(* ===================== max segment tree (12_feb_910) ================== *)
\* float('-inf'): below every cell value
NegInf == -100

\* the arrays a tree is built from, as Python lists of length 0..MaxArrLen
Arrays == UNION {[0..(n - 1) -> Vals] : n \in 0..MaxArrLen}

\* SegmentTree.build_tree(arr, start, end, index) of the max tree at call
\* depth d: returns [tree, err]
RECURSIVE MTBuildTree(_, _, _, _, _, _)
MTBuildTree(tree, arr, start, end, index, d) ==
    IF d > MaxDepth THEN [tree |-> tree, err |-> "RecursionError"]
    ELSE IF start = end
    THEN IF ~PyInRange(PyLen(arr), start) \/ ~PyInRange(PyLen(tree), index)
         THEN [tree |-> tree, err |-> "IndexError"]
         ELSE [tree |-> [tree EXCEPT ![PyIndex(PyLen(tree), index)] = arr[PyIndex(PyLen(arr), start)]],
               err |-> "none"]
    ELSE LET mid == (start + end) \div 2
             l == MTBuildTree(tree, arr, start, mid, 2 * index + 1, d + 1)
         IN IF l.err # "none" THEN l
            ELSE LET r == MTBuildTree(l.tree, arr, mid + 1, end, 2 * index + 2, d + 1)
                 IN IF r.err # "none" THEN r
                    ELSE IF ~PyInRange(PyLen(tree), 2 * index + 2)
                    THEN [tree |-> r.tree, err |-> "IndexError"]
                    ELSE [tree |-> [r.tree EXCEPT ![index] =
                                      PyMax(r.tree[2 * index + 1], r.tree[2 * index + 2])],
                          err |-> "none"]

\* SegmentTree.__init__ of the max tree: returns [tree, err]
MTNew(arr) == MTBuildTree(Zeros(4 * PyLen(arr)), arr, 0, PyLen(arr) - 1, 0, 1)

\* SegmentTree.query_helper: returns [ret, err]
RECURSIVE query_helper(_, _, _, _, _, _)
query_helper(tree, start, end, index, tree_start, tree_end) ==
    IF start > tree_end \/ end < tree_start THEN [ret |-> <<NegInf>>, err |-> "none"]
    ELSE IF start <= tree_start /\ end >= tree_end
    THEN IF ~PyInRange(PyLen(tree), index) THEN [ret |-> <<>>, err |-> "IndexError"]
         ELSE [ret |-> <<tree[index]>>, err |-> "none"]
    ELSE LET mid == (tree_start + tree_end) \div 2
             l == query_helper(tree, start, PyMin(end, mid), 2 * index + 1, tree_start, mid)
         IN IF l.err # "none" THEN l
            ELSE LET r == query_helper(tree, PyMax(start, mid + 1), end,
                                       2 * index + 2, mid + 1, tree_end)
                 IN IF r.err # "none" THEN r
                    ELSE [ret |-> <<PyMax(l.ret[1], r.ret[1])>>, err |-> "none"]

\* SegmentTree.query of the max tree: the root range is 0..len(tree)//2 - 1
MTQueryOf(tree, start, end) ==
    query_helper(tree, start, end, 0, 0, (PyLen(tree) \div 2) - 1)

\* The calls build_tree makes from the call (start, end, index) at depth d:
\* returns [nodes, err], nodes the <<index, start, end>> it is called with.
\* The only base case is start == end, so an empty range start > end calls
\* its left child on the same range until the recursion limit; the right
\* child is called only when the left call returned.
RECURSIVE MTBuildCalls(_, _, _, _)
MTBuildCalls(start, end, index, d) ==
    IF d > MaxDepth THEN [nodes |-> {}, err |-> "RecursionError"]
    ELSE IF start = end THEN [nodes |-> {<<index, start, end>>}, err |-> "none"]
    ELSE LET mid == (start + end) \div 2
             l == MTBuildCalls(start, mid, 2 * index + 1, d + 1)
         IN IF l.err # "none"
            THEN [nodes |-> {<<index, start, end>>} \cup l.nodes, err |-> l.err]
            ELSE LET r == MTBuildCalls(mid + 1, end, 2 * index + 2, d + 1)
                 IN [nodes |-> {<<index, start, end>>} \cup l.nodes \cup r.nodes,
                     err |-> r.err]

\* the <<index, start, end>> that the build_tree call of __init__ and the
\* calls under it are made with
MTBuildNodes(start, end, index) == MTBuildCalls(start, end, index, 1).nodes

\* The calls query_helper makes from the call (start, end, index,
\* tree_start, tree_end): returns [nodes, err], nodes the
\* <<index, tree_start, tree_end>> it is called with.  The right child is
\* called only when the left call returned.
RECURSIVE MTQueryCalls(_, _, _, _, _, _)
MTQueryCalls(tree, start, end, index, tree_start, tree_end) ==
    IF start > tree_end \/ end < tree_start
    THEN [nodes |-> {<<index, tree_start, tree_end>>}, err |-> "none"]
    ELSE IF start <= tree_start /\ end >= tree_end
    THEN [nodes |-> {<<index, tree_start, tree_end>>},
          err |-> IF ~PyInRange(PyLen(tree), index) THEN "IndexError" ELSE "none"]
    ELSE LET mid == (tree_start + tree_end) \div 2
             l == MTQueryCalls(tree, start, PyMin(end, mid), 2 * index + 1, tree_start, mid)
         IN IF l.err # "none"
            THEN [nodes |-> {<<index, tree_start, tree_end>>} \cup l.nodes, err |-> l.err]
            ELSE LET r == MTQueryCalls(tree, PyMax(start, mid + 1), end,
                                       2 * index + 2, mid + 1, tree_end)
                 IN [nodes |-> {<<index, tree_start, tree_end>>} \cup l.nodes \cup r.nodes,
                     err |-> r.err]

\* the <<index, tree_start, tree_end>> that query(start, end) calls
\* query_helper with: the root range is 0..len(tree)//2 - 1
MTQueryNodes(tree, start, end) ==
    MTQueryCalls(tree, start, end, 0, 0, (PyLen(tree) \div 2) - 1).nodes

\* the ranges a caller queries: inside the array, or with wild = TRUE
\* anywhere in -1..2n+1
MTRanges(wild) ==
    LET n == PyLen(mtArr)
        S == IF wild THEN (-1)..(2 * n + 1) ELSE 0..(n - 1)
    IN {r \in S \X S : r[1] <= r[2]}

MTQuery(wild) ==
    /\ mtState = "built"
    /\ \E r \in MTRanges(wild) :
          LET q == MTQueryOf(mtTree, r[1], r[2]) IN
          mtOp' = [op |-> "query", lo |-> r[1], hi |-> r[2], ret |-> q.ret, err |-> q.err]
    /\ UNCHANGED <<mtArr, mtTree, mtState>>

MTInit ==
    /\ mtArr \in Arrays
    /\ mtTree = MTNew(mtArr).tree
    /\ mtState = IF MTNew(mtArr).err = "none" THEN "built" ELSE MTNew(mtArr).err
    /\ mtOp = [op |-> "new", lo |-> 0, hi |-> 0, ret |-> <<>>, err |-> MTNew(mtArr).err]

MTIdle ==
    /\ mtArr = <<>>
    /\ mtTree = <<>>
    /\ mtState = "absent"
    /\ mtOp = [op |-> "none", lo |-> 0, hi |-> 0, ret |-> <<>>, err |-> "none"]

(* ===================== sum segment tree (13_feb_250) ================== *)
\* The file ends in the middle of update (line 82): update does not compile,
\* so no call of it runs any of its body.  __init__, build_tree and query
\* are modelled as written.
\* SegmentTree.build_tree(arr, node, start, end) of the sum tree at call
\* depth d: returns [tree, err].  The only base case is start > end, so a
\* leaf range start == end calls itself on (start, mid) == (start, end).
RECURSIVE STBuildTree(_, _, _, _, _, _)
STBuildTree(tree, arr, node, start, end, d) ==
    IF d > MaxDepth THEN [tree |-> tree, err |-> "RecursionError"]
    ELSE IF start > end THEN [tree |-> tree, err |-> "none"]
    ELSE LET mid == (start + end) \div 2
             l == STBuildTree(tree, arr, 2 * node + 1, start, mid, d + 1)
         IN IF l.err # "none" THEN l
            ELSE LET r == STBuildTree(l.tree, arr, 2 * node + 2, mid + 1, end, d + 1)
                 IN IF r.err # "none" THEN r
                    ELSE IF ~PyInRange(PyLen(tree), 2 * node + 2) \/ ~PyInRange(PyLen(arr), mid)
                    THEN [tree |-> r.tree, err |-> "IndexError"]
                    ELSE [tree |-> [r.tree EXCEPT ![node] =
                                      IF start = end THEN arr[PyIndex(PyLen(arr), mid)]
                                      ELSE r.tree[2 * node + 1] + r.tree[2 * node + 2]],
                          err |-> "none"]

\* SegmentTree.__init__ of the sum tree: returns [tree, err]
STNew(arr) == STBuildTree(Zeros(4 * PyLen(arr)), arr, 0, 0, PyLen(arr) - 1, 1)

\* SegmentTree.query(node, start, end, left, right) of the sum tree at call
\* depth d: returns [ret, err].  It descends into one child only.
RECURSIVE STQueryRec(_, _, _, _, _, _, _)
STQueryRec(tree, node, start, end, left, right, d) ==
    IF d > MaxDepth THEN [ret |-> <<>>, err |-> "RecursionError"]
    ELSE IF start > end \/ left > right THEN [ret |-> <<0>>, err |-> "none"]
    ELSE LET mid == (start + end) \div 2 IN
         IF left <= start /\ end <= right
         THEN IF ~PyInRange(PyLen(tree), node) THEN [ret |-> <<>>, err |-> "IndexError"]
              ELSE [ret |-> <<tree[PyIndex(PyLen(tree), node)]>>, err |-> "none"]
         ELSE IF left <= mid
         THEN STQueryRec(tree, 2 * node + 1, start, mid, left, right, d + 1)
         ELSE STQueryRec(tree, 2 * node + 2, mid + 1, end, left, right, d + 1)

\* query(0, 0, n - 1, left, right) on the tree of an array of length n
STQueryOf(tree, n, left, right) == STQueryRec(tree, 0, 0, n - 1, left, right, 1)

\* SegmentTree.update(node, start, end, idx, val): returns [tree, err].  The
\* source ends inside the statement 'mid = (' (line 82), so the function is
\* rejected when it is compiled: every call, whatever its arguments, is a
\* SyntaxError and leaves the tree as it was.
STUpdateOf(tree, node, start, end, idx, val) ==
    [tree |-> tree, err |-> "SyntaxError"]

\* The calls build_tree makes from the call (node, start, end) at depth d:
\* returns [nodes, err], nodes the <<node, start, end>> with start <= end it
\* is called with.  The right child is called only when the left call
\* returned.
RECURSIVE STBuildCalls(_, _, _, _)
STBuildCalls(node, start, end, d) ==
    IF d > MaxDepth THEN [nodes |-> {}, err |-> "RecursionError"]
    ELSE IF start > end THEN [nodes |-> {}, err |-> "none"]
    ELSE LET mid == (start + end) \div 2
             l == STBuildCalls(2 * node + 1, start, mid, d + 1)
         IN IF l.err # "none"
            THEN [nodes |-> {<<node, start, end>>} \cup l.nodes, err |-> l.err]
            ELSE LET r == STBuildCalls(2 * node + 2, mid + 1, end, d + 1)
                 IN [nodes |-> {<<node, start, end>>} \cup l.nodes \cup r.nodes,
                     err |-> r.err]

\* the <<node, start, end>> with start <= end that the build_tree call of
\* __init__ and the calls under it are made with
STBuildNodes(node, start, end) == STBuildCalls(node, start, end, 1).nodes

\* the positions a caller names: -1..n+1
STPositions == (-1)..(PyLen(stArr) + 1)

STQuery ==
    /\ stState = "built"
    /\ \E left \in STPositions, right \in STPositions :
          LET q == STQueryOf(stTree, PyLen(stArr), left, right) IN
          stOp' = [op |-> "query", lo |-> left, hi |-> right, ret |-> q.ret, err |-> q.err]
    /\ UNCHANGED <<stArr, stTree, stState, stCur>>

STUpdate ==
    /\ stState = "built"
    /\ \E idx \in STPositions, val \in Vals :
          LET u == STUpdateOf(stTree, 0, 0, PyLen(stArr) - 1, idx, val) IN
          /\ stTree' = u.tree
          \* the values a caller has written, whatever the tree did with them
          /\ stCur' = IF idx \in DOMAIN stCur THEN [stCur EXCEPT ![idx] = val] ELSE stCur
          /\ stOp' = [op |-> "update", lo |-> idx, hi |-> val, ret |-> <<>>, err |-> u.err]
    /\ UNCHANGED <<stArr, stState>>

STInit ==
    /\ stArr \in Arrays
    /\ stTree = STNew(stArr).tree
    /\ stState = IF STNew(stArr).err = "none" THEN "built" ELSE STNew(stArr).err
    /\ stCur = stArr
    /\ stOp = [op |-> "new", lo |-> 0, hi |-> 0, ret |-> <<>>, err |-> STNew(stArr).err]

STIdle ==
    /\ stArr = <<>>
    /\ stTree = <<>>
    /\ stState = "absent"
    /\ stCur = <<>>
    /\ stOp = [op |-> "none", lo |-> 0, hi |-> 0, ret |-> <<>>, err |-> "none"]


(* --------------------- segment trees: the claims ---------------------- *)
\* max(arr[lo..hi]) and sum(arr[lo..hi]) computed from the array itself
RangeMax(arr, lo, hi) ==
    CHOOSE m \in {arr[i] : i \in lo..hi} : \A i \in lo..hi : arr[i] <= m

RECURSIVE RangeSum(_, _, _)
RangeSum(arr, lo, hi) == IF lo > hi THEN 0 ELSE arr[lo] + RangeSum(arr, lo + 1, hi)

\* C6: on the max tree of a non-empty array, query(lo, hi) with
\* 0 <= lo <= hi <= n-1 returns max(arr[lo..hi]), and every node range the
\* query walks is the range build_tree gave that tree index.
C6_MaxQueryCorrect ==
    (mtOp.op = "query" /\ 0 <= mtOp.lo /\ mtOp.lo <= mtOp.hi /\ mtOp.hi <= PyLen(mtArr) - 1) =>
        /\ mtOp.err = "none"
        /\ mtOp.ret = <<RangeMax(mtArr, mtOp.lo, mtOp.hi)>>
        /\ MTQueryNodes(mtTree, mtOp.lo, mtOp.hi)
              \subseteq MTBuildNodes(0, PyLen(mtArr) - 1, 0)

\* C7: on the sum tree of a non-empty array, after any updates with indices
\* in 0..n-1, query(i, i) is the value last written to i (arr[i] if none) and
\* query(0, n-1) is the sum of the current values.
C7_UpdateThenQuery ==
    (stState # "absent" /\ PyLen(stArr) >= 1) =>
        /\ stState = "built"
        /\ \A i \in DOMAIN stCur :
              STQueryOf(stTree, PyLen(stArr), i, i) = [ret |-> <<stCur[i]>>, err |-> "none"]
        /\ STQueryOf(stTree, PyLen(stArr), 0, PyLen(stArr) - 1)
              = [ret |-> <<RangeSum(stCur, 0, PyLen(stArr) - 1)>>, err |-> "none"]

\* the max tree's half of C8: leaves hold arr[i], inner nodes the max of
\* their children
MTNodesHoldMax ==
    (mtState # "absent" /\ PyLen(mtArr) >= 1) =>
        /\ mtState = "built"
        /\ \A t \in MTBuildNodes(0, PyLen(mtArr) - 1, 0) :
              IF t[2] = t[3] THEN mtTree[t[1]] = mtArr[t[2]]
              ELSE mtTree[t[1]] = PyMax(mtTree[2 * t[1] + 1], mtTree[2 * t[1] + 2])

\* the sum tree's half of C8
STNodesHoldSum ==
    (stState # "absent" /\ PyLen(stArr) >= 1) =>
        /\ stState = "built"
        /\ \A t \in STBuildNodes(0, 0, PyLen(stArr) - 1) :
              IF t[2] = t[3] THEN stTree[t[1]] = stArr[t[2]]
              ELSE stTree[t[1]] = stTree[2 * t[1] + 1] + stTree[2 * t[1] + 2]

\* C8: once either tree has been constructed from a non-empty array, in
\* every later state (so after any queries) each leaf [i, i] holds arr[i] and
\* each inner node the aggregate of its two children: max in the max tree,
\* sum in the sum tree.
C8_NodesHoldAggregate == MTNodesHoldMax /\ STNodesHoldSum

\* C9: on the sum tree of a non-empty array, query(0, 0, n-1, left, right)
\* returns sum(arr[left..right]) for every 0 <= left <= right <= n-1.
C9_SumQueryCorrect ==
    (stState # "absent" /\ PyLen(stArr) >= 1) =>
        /\ stState = "built"
        /\ \A left \in DOMAIN stArr, right \in DOMAIN stArr :
              left <= right =>
                 STQueryOf(stTree, PyLen(stArr), left, right)
                    = [ret |-> <<RangeSum(stCur, left, right)>>, err |-> "none"]

\* C10: a query whose range is not inside [0, n) fails with an
\* index-out-of-range error: it returns no value and does not recurse
\* without bound.
C10_OutOfRangeQueryFails ==
    /\ (mtOp.op = "query" /\ ~(0 <= mtOp.lo /\ mtOp.hi <= PyLen(mtArr) - 1)) =>
          (mtOp.err = "IndexError" /\ mtOp.ret = <<>>)
    /\ (stOp.op = "query" /\ ~(0 <= stOp.lo /\ stOp.hi <= PyLen(stArr) - 1)) =>
          (stOp.err = "IndexError" /\ stOp.ret = <<>>)

(* ==================== monotonic stack (13_feb_501) ==================== *)
MaxStack == 3      \* pushes are offered while the stack is shorter than this

\* A push that evicts at most one element (an if where the source loops).
pushEvictsOnce(stack, val) ==
    IF Len(stack) > 0 /\ val < stack[Len(stack)]
    THEN Append(SubSeq(stack, 1, Len(stack) - 1), val)
    ELSE Append(stack, val)

\* A push that also evicts the elements equal to val (<= where the source
\* compares with <).
RECURSIVE pushEvictsEqual(_, _)
pushEvictsEqual(stack, val) ==
    IF Len(stack) > 0 /\ val <= stack[Len(stack)]
    THEN pushEvictsEqual(SubSeq(stack, 1, Len(stack) - 1), val)
    ELSE Append(stack, val)

\* MonotonicStack.push: the stack after push(val); the top is the last element
RECURSIVE push(_, _)
push(stack, val) ==
    IF Len(stack) > 0 /\ val < stack[Len(stack)]
    THEN push(SubSeq(stack, 1, Len(stack) - 1), val)
    ELSE Append(stack, val)

\* A pop that takes the bottom element (list.pop(0)).
popFromBottom(stack) ==
    IF Len(stack) > 0
    THEN [stack |-> SubSeq(stack, 2, Len(stack)), ret |-> <<stack[1]>>, err |-> "none"]
    ELSE [stack |-> stack, ret |-> <<>>, err |-> "IndexError"]

\* MonotonicStack.pop: returns [stack, ret, err]
pop(stack) ==
    IF Len(stack) > 0
    THEN [stack |-> SubSeq(stack, 1, Len(stack) - 1), ret |-> <<stack[Len(stack)]>>,
          err |-> "none"]
    ELSE [stack |-> stack, ret |-> <<>>, err |-> "IndexError"]

\* MonotonicStack.is_empty
is_empty(stack) == Len(stack) = 0

\* msOp.before is the stack as the last call found it
MSPush ==
    /\ Len(msStack) < MaxStack
    /\ \E val \in Vals :
          /\ msStack' = push(msStack, val)
          /\ msOp' = [op |-> "push", val |-> val, before |-> msStack,
                      ret |-> <<>>, err |-> "none"]
    /\ UNCHANGED msPopped

MSPop ==
    LET r == pop(msStack) IN
    /\ msStack' = r.stack
    /\ msPopped' = TRUE
    /\ msOp' = [op |-> "pop", val |-> 0, before |-> msStack, ret |-> r.ret, err |-> r.err]

MSIsEmpty ==
    /\ msOp' = [op |-> "is_empty", val |-> 0, before |-> msStack,
                ret |-> <<is_empty(msStack)>>, err |-> "none"]
    /\ UNCHANGED <<msStack, msPopped>>

\* MonotonicStack.__init__
MSInit ==
    /\ msStack = <<>>
    /\ msPopped = FALSE
    /\ msOp = [op |-> "new", val |-> 0, before |-> <<>>, ret |-> <<>>, err |-> "none"]

(* -------------------- monotonic stack: the claims --------------------- *)
NonDecreasing(s) == \A i \in 1..(Len(s) - 1) : s[i] <= s[i + 1]

\* C11: after pushes only, on a stack that started empty, the stack read
\* bottom to top is non-decreasing and its top is >= every element.
C11_PushesKeepSorted ==
    ~msPopped =>
        /\ NonDecreasing(msStack)
        /\ \A i \in 1..Len(msStack) : msStack[i] <= msStack[Len(msStack)]

\* pushes only, and the last push evicted the top and kept the bottom
C11_Witness ==
    /\ ~msPopped
    /\ msOp.op = "push"
    /\ Len(msOp.before) = 2
    /\ Len(msStack) = 2
    /\ msStack # msOp.before

\* C12: pop on a non-empty stack removes and returns the top and leaves the
\* rest as it was; pop on an empty stack raises IndexError and leaves it
\* empty; is_empty is true exactly when the stack holds no element.
C12_PopAndIsEmpty ==
    /\ msOp.op = "pop" =>
          IF msOp.before = <<>>
          THEN msOp.err = "IndexError" /\ msOp.ret = <<>> /\ msStack = <<>>
          ELSE /\ msOp.err = "none"
               /\ msOp.ret = <<msOp.before[Len(msOp.before)]>>
               /\ msStack = SubSeq(msOp.before, 1, Len(msOp.before) - 1)
    /\ msOp.op = "is_empty" =>
          /\ msOp.ret = <<msStack = <<>>>>
          /\ msStack = msOp.before
          /\ msOp.err = "none"

\* a pop returned the top of a stack of two different values
C12_Witness ==
    /\ msOp.op = "pop" /\ msOp.err = "none"
    /\ Len(msOp.before) >= 2
    /\ msOp.before[1] # msOp.before[Len(msOp.before)]
    /\ msOp.ret = <<msOp.before[Len(msOp.before)]>>

\* C28: under any interleaving of push and pop the stack is non-decreasing
\* from bottom to top, and push(v) leaves the old stack without its elements
\* greater than v, which are a suffix at the top, followed by v; the
\* elements less than or equal to v stay in their order.
C28_PushEffect ==
    /\ NonDecreasing(msStack)
    /\ msOp.op = "push" =>
          LET Stays(x) == x <= msOp.val
              old == msOp.before
          IN /\ msStack = Append(SelectSeq(old, Stays), msOp.val)
             /\ \E k \in 0..Len(old) :
                   /\ \A i \in 1..k : old[i] <= msOp.val
                   /\ \A i \in (k + 1)..Len(old) : old[i] > msOp.val

\* after a pop, a push between the two elements of the stack: the top is
\* evicted, the bottom stays
C28_Witness ==
    /\ msPopped
    /\ msOp.op = "push"
    /\ Len(msOp.before) = 2
    /\ msOp.before[1] <= msOp.val
    /\ msOp.val < msOp.before[2]
    /\ msStack = <<msOp.before[1], msOp.val>>

(* ========================= Dijkstra (16_feb_264) ====================== *)
\* The graph is a dict of dicts: djGraph[u] is the sequence of <<v, weight>>
\* items of graph[u] in dict order.  Nodes are numbered; 'A'..'D' of the
\* example are 1..4.
DjMaxNodes == 3    \* largest generated graph
DjMaxWeight == 2   \* edge weights are 1..DjMaxWeight

\* sys.maxsize, cut to the integer width of the checker
SysMaxsize == 2147483647

RECURSIVE AscSeq(_)
AscSeq(S) ==
    IF S = {} THEN <<>>
    ELSE LET m == CHOOSE x \in S : \A y \in S : x <= y
         IN <<m>> \o AscSeq(S \ {m})

\* the graphs dijkstra is given: every choice of weighted edges between
\* 1..n, the items of each inner dict in ascending order of the neighbour
DjGraphOf(n, w) ==
    [u \in 1..n |->
        LET nb == AscSeq({v \in 1..n : w[u][v] # 0})
        IN [i \in 1..Len(nb) |-> <<nb[i], w[u][nb[i]]>>]]

DjGraphs ==
    UNION {{DjGraphOf(n, w) :
              w \in {m \in [1..n -> [1..n -> 0..DjMaxWeight]] : \A u \in 1..n : m[u][u] = 0}} :
           n \in 1..DjMaxNodes}

\* the graph of the example usage
DjExample ==
    <<  << <<2, 1>>, <<3, 3>> >>,
        << <<1, 1>>, <<3, 2>>, <<4, 4>> >>,
        << <<1, 3>>, <<2, 2>>, <<4, 5>> >>,
        << <<2, 4>>, <<3, 5>> >>  >>

\* heapq.heappop: the least (distance, node) tuple
DjHeapMin(pq) ==
    CHOOSE e \in pq : \A f \in pq : e[1] < f[1] \/ (e[1] = f[1] /\ e[2] <= f[2])

\* the for loop over graph[current_node].items(), from item k on: returns
\* [dist, prev, pq, err].  previous is a name the function never binds, so
\* the first assignment previous[neighbor] = ... raises NameError, after
\* distances[neighbor] has been written.
RECURSIVE DjRelax(_, _, _, _, _, _, _, _)
DjRelax(items, k, node, current_distance, dist, prev, bound, pq) ==
    IF k > Len(items) THEN [dist |-> dist, prev |-> prev, pq |-> pq, err |-> "none"]
    ELSE LET neighbor == items[k][1]
             distance == current_distance + items[k][2]
         IN IF distance < dist[neighbor]
            THEN LET d2 == [dist EXCEPT ![neighbor] = distance] IN
                 IF ~bound
                 THEN [dist |-> d2, prev |-> prev, pq |-> pq, err |-> "NameError"]
                 ELSE DjRelax(items, k + 1, node, current_distance, d2,
                              [v \in DOMAIN prev \cup {neighbor} |->
                                  IF v = neighbor THEN node ELSE prev[v]],
                              bound, pq \cup {<<distance, neighbor>>})
            ELSE DjRelax(items, k + 1, node, current_distance, dist, prev, bound, pq)

\* lines 21-25: the state on entry to the while loop
DJInit ==
    /\ djGraph \in DjGraphs \cup {DjExample}
    /\ djStart \in DOMAIN djGraph
    /\ djDist = [v \in DOMAIN djGraph |-> IF v = djStart THEN 0 ELSE SysMaxsize]
    /\ djPrev = <<>>
    /\ djPrevBound = FALSE
    /\ djPq = {<<0, djStart>>}
    /\ djState = "running"
    /\ djExpanded = {}

\* one iteration of the while loop; djExpanded collects the nodes whose
\* edges the for loop has been entered for
DJIterate ==
    /\ djState = "running"
    /\ djPq # {}
    /\ LET e == DjHeapMin(djPq)
           rest == djPq \ {e}
       IN IF e[1] > djDist[e[2]]
          THEN /\ djPq' = rest
               /\ UNCHANGED <<djDist, djPrev, djState, djExpanded>>
          ELSE LET r == DjRelax(djGraph[e[2]], 1, e[2], e[1], djDist, djPrev,
                                djPrevBound, rest)
               IN /\ djDist' = r.dist
                  /\ djPrev' = r.prev
                  /\ djPq' = r.pq
                  /\ djState' = IF r.err = "none" THEN "running" ELSE r.err
                  /\ djExpanded' = djExpanded \cup {e[2]}
    /\ UNCHANGED <<djGraph, djStart, djPrevBound>>

\* line 43: return distances, previous
DJReturn ==
    /\ djState = "running"
    /\ djPq = {}
    /\ djState' = IF djPrevBound THEN "returned" ELSE "NameError"
    /\ UNCHANGED <<djGraph, djStart, djDist, djPrev, djPrevBound, djPq, djExpanded>>

(* ------------------------ Dijkstra: the claims ------------------------ *)
\* reference distances: n rounds of relaxing every edge
RECURSIVE RefDist(_, _, _)
RefDist(g, d, rounds) ==
    IF rounds = 0 THEN d
    ELSE RefDist(g,
            [v \in DOMAIN g |->
                LET via == UNION {{d[u] + g[u][i][2] :
                                     i \in {j \in 1..Len(g[u]) : g[u][j][1] = v}} :
                                  u \in {x \in DOMAIN g : d[x] < SysMaxsize}}
                    best == IF via = {} THEN SysMaxsize
                            ELSE CHOOSE x \in via : \A y \in via : x <= y
                IN IF best < d[v] THEN best ELSE d[v]],
            rounds - 1)

DjShortest ==
    RefDist(djGraph, [v \in DOMAIN djGraph |-> IF v = djStart THEN 0 ELSE SysMaxsize],
            PyLen(djGraph))

DjEnded == djState \notin {"absent", "running"}

\* the weight of the edge u -> v, or -1 when the graph has none
DjEdgeWeight(u, v) ==
    LET at == {j \in 1..Len(djGraph[u]) : djGraph[u][j][1] = v}
    IN IF at = {} THEN -1 ELSE djGraph[u][CHOOSE j \in at : TRUE][2]

\* the predecessor walk from v: <<reached the source, summed weight>>
RECURSIVE DjWalk(_, _, _)
DjWalk(v, sum, fuel) ==
    IF v = djStart THEN <<TRUE, sum>>
    ELSE IF fuel = 0 \/ v \notin DOMAIN djPrev THEN <<FALSE, sum>>
    ELSE IF DjEdgeWeight(djPrev[v], v) < 0 THEN <<FALSE, sum>>
    ELSE DjWalk(djPrev[v], sum + DjEdgeWeight(djPrev[v], v), fuel - 1)

\* C13: dijkstra returns normally with the minimum path weight of every
\* reachable node; on the example graph from A the distances are
\* A:0, B:1, C:3, D:5.
C13_DistancesAreShortest ==
    DjEnded =>
        /\ djState = "returned"
        /\ \A v \in DOMAIN djGraph :
              DjShortest[v] < SysMaxsize => djDist[v] = DjShortest[v]
        /\ (djGraph = DjExample /\ djStart = 1) => djDist = <<0, 1, 3, 5>>

\* C14: the returned predecessor map leads from every reachable node other
\* than the source back to the source along edges whose weights sum to the
\* node's distance.
C14_PredecessorsReconstruct ==
    DjEnded =>
        /\ djState = "returned"
        /\ \A v \in DOMAIN djGraph :
              (v # djStart /\ DjShortest[v] < SysMaxsize) =>
                 DjWalk(v, 0, PyLen(djGraph)) = <<TRUE, djDist[v]>>

\* C15: with a node unreachable from the source, dijkstra still ends without
\* error; unreachable nodes keep sys.maxsize and reachable ones are finite.
C15_UnreachableStayInfinite ==
    (DjEnded /\ \E v \in DOMAIN djGraph : DjShortest[v] = SysMaxsize) =>
        /\ djState = "returned"
        /\ \A v \in DOMAIN djGraph :
              (DjShortest[v] = SysMaxsize) <=> (djDist[v] = SysMaxsize)

\* C27: a popped entry whose distance exceeds the node's recorded distance
\* is skipped without relaxing anything; so a node's edges are relaxed at
\* most once, a recorded distance never grows and is final once the node
\* has been expanded, and every iteration hands over to the next until the
\* queue is empty.
C27_StaleEntriesSkipped ==
    [][ (djState = "running" /\ djPq # {}) =>
          LET e == DjHeapMin(djPq) IN
          /\ e[1] > djDist[e[2]] => (djDist' = djDist /\ djPq' = djPq \ {e})
          /\ e[2] \in djExpanded => e[1] > djDist[e[2]]
          /\ \A v \in DOMAIN djGraph : djDist'[v] <= djDist[v]
          /\ \A v \in djExpanded : djDist'[v] = djDist[v]
          /\ djState' = "running" ]_vars

(* ===================== breadth first search (09_feb_788) ============== *)
\* The graph is a list of adjacency lists: bfGraph[u], u in 0..n-1, is the
\* sequence of the neighbours of u.
BfMaxNodes == 3       \* largest generated graph
BfExampleNodes == 6   \* n_nodes of the example run

create_graph(n_nodes) ==
    [i \in 0..(n_nodes - 1) |->
        (IF i > 0 THEN <<i - 1>> ELSE <<>>) \o (IF i < n_nodes - 1 THEN <<i + 1>> ELSE <<>>)]

BfReverse(s) == [i \in 1..Len(s) |-> s[Len(s) + 1 - i]]

\* the adjacency lists a node u of an n-node graph is given: any set of
\* other nodes, in ascending or in descending order
BfAdjLists(n) ==
    UNION {{AscSeq(S), BfReverse(AscSeq(S))} : S \in SUBSET (0..(n - 1))}

BfGraphs ==
    UNION {{g \in [0..(n - 1) -> BfAdjLists(n)] :
                \A u \in 0..(n - 1) : \A i \in 1..Len(g[u]) : g[u][i] # u} :
           n \in 0..BfMaxNodes}
      \cup {create_graph(BfExampleNodes)}

\* deque.pop: the mistaken dequeue from the back
popRight(queue) ==
    [node |-> queue[Len(queue)], queue |-> SubSeq(queue, 1, Len(queue) - 1)]

\* deque.popleft
popleft(queue) == [node |-> Head(queue), queue |-> Tail(queue)]

\* the for loop run over the neighbours from the last to the first
RECURSIVE BfEnqueueReversed(_, _, _, _)
BfEnqueueReversed(nbrs, k, queue, visited) ==
    IF k > Len(nbrs) THEN [queue |-> queue, visited |-> visited]
    ELSE LET neighbor == nbrs[Len(nbrs) + 1 - k]
         IN IF neighbor \notin visited
            THEN BfEnqueueReversed(nbrs, k + 1, Append(queue, neighbor), visited \cup {neighbor})
            ELSE BfEnqueueReversed(nbrs, k + 1, queue, visited)

\* the for loop over graph[node], from neighbour k on
RECURSIVE BfEnqueue(_, _, _, _)
BfEnqueue(nbrs, k, queue, visited) ==
    IF k > Len(nbrs) THEN [queue |-> queue, visited |-> visited]
    ELSE LET neighbor == nbrs[k]
         IN IF neighbor \notin visited
            THEN BfEnqueue(nbrs, k + 1, Append(queue, neighbor), visited \cup {neighbor})
            ELSE BfEnqueue(nbrs, k + 1, queue, visited)

\* lines 18-24, for a start drawn from starts
BFInit(wild) ==
    /\ bfGraph \in BfGraphs
    /\ bfStart \in IF wild THEN (-(PyLen(bfGraph) + 1))..PyLen(bfGraph)
                   ELSE DOMAIN bfGraph
    /\ bfQueue = <<bfStart>>
    /\ bfVisited = {bfStart}
    /\ bfOut = <<>>
    /\ bfState = "running"

\* one iteration of the while loop: the node is printed before graph[node]
\* is read
BFVisit ==
    /\ bfState = "running"
    /\ bfQueue # <<>>
    /\ LET p == popleft(bfQueue) IN
       /\ bfOut' = Append(bfOut, p.node)
       /\ IF PyInRange(PyLen(bfGraph), p.node)
          THEN LET r == BfEnqueue(bfGraph[PyIndex(PyLen(bfGraph), p.node)], 1,
                                  p.queue, bfVisited)
               IN /\ bfQueue' = r.queue
                  /\ bfVisited' = r.visited
                  /\ bfState' = "running"
          ELSE /\ bfQueue' = p.queue
               /\ bfVisited' = bfVisited
               /\ bfState' = "IndexError"
    /\ UNCHANGED <<bfGraph, bfStart>>

\* the queue is empty: the loop ends and bfs_traversal returns
BFReturn ==
    /\ bfState = "running"
    /\ bfQueue = <<>>
    /\ bfState' = "returned"
    /\ UNCHANGED <<bfGraph, bfStart, bfQueue, bfVisited, bfOut>>

(* --------------------------- BFS: the claims -------------------------- *)
\* hop count of v from the frontier, -1 when v is out of reach
RECURSIVE HopFrom(_, _, _, _, _)
HopFrom(g, seen, frontier, d, v) ==
    IF v \in frontier THEN d
    ELSE LET s2 == seen \cup frontier
             nxt == {w \in DOMAIN g \ s2 :
                        \E u \in frontier : \E i \in 1..Len(g[u]) : g[u][i] = w}
         IN IF nxt = {} THEN -1 ELSE HopFrom(g, s2, nxt, d + 1, v)

BfHop(v) == HopFrom(bfGraph, {}, {bfStart}, 0, v)

BfReach == {v \in DOMAIN bfGraph : BfHop(v) >= 0}

BfStartValid == bfStart \in DOMAIN bfGraph

\* C16: a start that is not a node of the graph (negative ones included)
\* makes bfs_traversal fail before anything is emitted; the absent start is
\* never emitted nor treated as a node.
C16_AbsentStartFailsFirst ==
    ~BfStartValid =>
        /\ bfOut = <<>>
        /\ bfState \in {"running", "IndexError"}

\* the position in the output at which v was first discovered, and its place
\* in the discoverer's adjacency list
BfDiscoverer(v) ==
    LET at == {i \in 1..Len(bfOut) :
                  \E k \in 1..Len(bfGraph[bfOut[i]]) : bfGraph[bfOut[i]][k] = v}
    IN IF at = {} THEN 0 ELSE CHOOSE i \in at : \A j \in at : i <= j

BfPlace(v) ==
    LET nbrs == bfGraph[bfOut[BfDiscoverer(v)]]
        at == {k \in 1..Len(nbrs) : nbrs[k] = v}
    IN CHOOSE k \in at : \A j \in at : k <= j

BfBefore(v, w) ==
    \/ BfDiscoverer(v) < BfDiscoverer(w)
    \/ BfDiscoverer(v) = BfDiscoverer(w) /\ BfPlace(v) < BfPlace(w)

\* C17: from a valid start bfs_traversal emits exactly the reachable nodes,
\* each once, in first-discovery order (start first, then the neighbours of
\* each dequeued node in adjacency-list order), and ends without error
\* whether or not some nodes are out of reach.
C17_EmitsReachableInDiscoveryOrder ==
    /\ bfState \in {"absent", "running", "returned"}
    /\ \A i, j \in 1..Len(bfOut) : bfOut[i] = bfOut[j] => i = j
    /\ \A i \in 1..Len(bfOut) : bfOut[i] \in BfReach
    /\ Len(bfOut) >= 1 => bfOut[1] = bfStart
    /\ \A i, j \in 2..Len(bfOut) :
          /\ BfDiscoverer(bfOut[i]) \in 1..(i - 1)
          /\ i < j => BfBefore(bfOut[i], bfOut[j])
    /\ bfState = "returned" => {bfOut[i] : i \in 1..Len(bfOut)} = BfReach

\* start lists two neighbours in descending order, and the first of them
\* lists the second again
C17_Witness ==
    /\ bfState = "returned"
    /\ Len(bfOut) = 3
    /\ bfOut[2] > bfOut[3]
    /\ BfDiscoverer(bfOut[3]) = 1
    /\ \E k \in 1..Len(bfGraph[bfOut[2]]) : bfGraph[bfOut[2]][k] = bfOut[3]

BfConnected == bfState # "absent" /\ BfReach = DOMAIN bfGraph

\* C18 as stated: in a connected graph every emitted node is strictly closer
\* to start than every node emitted after it.
C18_StrictlyCloser ==
    BfConnected =>
        \A i, j \in 1..Len(bfOut) : i < j => BfHop(bfOut[i]) < BfHop(bfOut[j])

\* C18 amended: in a connected graph no emitted node is farther from start
\* than a node emitted after it (hop counts never decrease along the output).
C18_NeverFarther ==
    BfConnected =>
        \A i, j \in 1..Len(bfOut) : i < j => BfHop(bfOut[i]) <= BfHop(bfOut[j])

C18_Witness ==
    /\ BfConnected
    /\ bfState = "returned"
    /\ \E i, j \in 1..Len(bfOut) : i < j /\ BfHop(bfOut[i]) = BfHop(bfOut[j])
    /\ \E i \in 1..Len(bfOut) : BfHop(bfOut[i]) = 2

(* ============= binary tree traversals (09_feb_979, 10_feb_896) ======== *)
\* A tree is <<>> (None) or <<value, left, right>> (a Node).  The generated
\* trees carry the heap number of each node as its value (root 1, children
\* of h are 2h and 2h+1), so values are distinct and name the node's place.
MaxTreeNodes == 4   \* largest generated tree

RECURSIVE TrSize(_)
TrSize(t) == IF t = <<>> THEN 0 ELSE 1 + TrSize(t[2]) + TrSize(t[3])

RECURSIVE TrTreesAt(_, _)
TrTreesAt(h, n) ==
    IF n = 0 THEN {<<>>}
    ELSE {<<>>} \cup
         {t \in {<<h, l, r>> : l \in TrTreesAt(2 * h, n - 1),
                               r \in TrTreesAt(2 * h + 1, n - 1)} : TrSize(t) <= n}

\* the sample tree of 10_feb_896: 1 over (2 over 4 and 5) and 3
TrExample == <<1, <<2, <<4, <<>>, <<>>>>, <<5, <<>>, <<>>>>>>, <<3, <<>>, <<>>>>>>

TrTrees == TrTreesAt(1, MaxTreeNodes) \cup {TrExample}

\* BinaryTree.inorder and its nested traverse with the node visited first
RECURSIVE inorderNodeFirst(_)
inorderNodeFirst(node) ==
    IF node # <<>>
    THEN <<node[1]>> \o inorderNodeFirst(node[2]) \o inorderNodeFirst(node[3])
    ELSE <<>>

\* BinaryTree.inorder: traverse(self.root) appending to result
RECURSIVE inorder(_)
inorder(node) ==
    IF node # <<>> THEN inorder(node[2]) \o <<node[1]>> \o inorder(node[3]) ELSE <<>>

\* BinaryTree.preorder
RECURSIVE preorder(_)
preorder(node) ==
    IF node # <<>> THEN <<node[1]>> \o preorder(node[2]) \o preorder(node[3]) ELSE <<>>

\* BinaryTree.postorder
RECURSIVE postorder(_)
postorder(node) ==
    IF node # <<>> THEN postorder(node[2]) \o postorder(node[3]) \o <<node[1]>> ELSE <<>>

\* inorder_traversal: the values printed, in order
RECURSIVE inorder_traversal(_)
inorder_traversal(node) ==
    IF node = <<>> THEN <<>>
    ELSE inorder_traversal(node[2]) \o <<node[1]>> \o inorder_traversal(node[3])

\* preorder_traversal
RECURSIVE preorder_traversal(_)
preorder_traversal(node) ==
    IF node = <<>> THEN <<>>
    ELSE <<node[1]>> \o preorder_traversal(node[2]) \o preorder_traversal(node[3])

\* postorder_traversal
RECURSIVE postorder_traversal(_)
postorder_traversal(node) ==
    IF node = <<>> THEN <<>>
    ELSE postorder_traversal(node[2]) \o postorder_traversal(node[3]) \o <<node[1]>>

TRInit ==
    /\ trTree \in TrTrees
    /\ trOp = [op |-> "none", order |-> "none", out |-> <<>>]

TRDone(op, order, out) ==
    /\ trOp' = [op |-> op, order |-> order, out |-> out]
    /\ UNCHANGED trTree

TRInorder == TRDone("inorder", "in", inorder(trTree))
TRPreorder == TRDone("preorder", "pre", preorder(trTree))
TRPostorder == TRDone("postorder", "post", postorder(trTree))
TRInorderTraversal == TRDone("inorder_traversal", "in", inorder_traversal(trTree))
TRPreorderTraversal == TRDone("preorder_traversal", "pre", preorder_traversal(trTree))
TRPostorderTraversal == TRDone("postorder_traversal", "post", postorder_traversal(trTree))

(* ----------------------- traversals: the claims ----------------------- *)
RECURSIVE TrValues(_)
TrValues(t) == IF t = <<>> THEN {} ELSE {t[1]} \cup TrValues(t[2]) \cup TrValues(t[3])

\* node a lies in the subtree whose root has heap number h
RECURSIVE TrUnder(_, _)
TrUnder(a, h) == a >= h /\ (a = h \/ TrUnder(a \div 2, h))

TrPos(out, v) == CHOOSE i \in 1..Len(out) : out[i] = v

TrSameValues(s, t) ==
    /\ Len(s) = Len(t)
    /\ \A v \in {s[i] : i \in 1..Len(s)} \cup {t[i] : i \in 1..Len(t)} :
          Cardinality({i \in 1..Len(s) : s[i] = v}) = Cardinality({i \in 1..Len(t) : t[i] = v})

\* C19: inorder visits left subtree, node, right subtree; preorder node,
\* left, right; postorder left, right, node.  Each output holds every node's
\* value exactly once, the outputs of all traversals are permutations of one
\* another, and the empty tree gives the empty sequence.
C19_TraversalOrders ==
    trOp.op # "none" =>
      LET out == trOp.out
          N == TrValues(trTree)
      IN /\ Len(out) = Cardinality(N)
         /\ {out[i] : i \in 1..Len(out)} = N
         /\ trTree = <<>> => out = <<>>
         /\ \A other \in {inorder(trTree), preorder(trTree), postorder(trTree),
                          inorder_traversal(trTree), preorder_traversal(trTree),
                          postorder_traversal(trTree)} : TrSameValues(out, other)
         /\ \A h \in N : \A a, b \in N :
               (TrUnder(a, 2 * h) /\ TrUnder(b, 2 * h + 1)) =>
                  /\ TrPos(out, a) < TrPos(out, b)
                  /\ trOp.order = "in" => TrPos(out, a) < TrPos(out, h) /\ TrPos(out, h) < TrPos(out, b)
                  /\ trOp.order = "pre" => TrPos(out, h) < TrPos(out, a)
                  /\ trOp.order = "post" => TrPos(out, b) < TrPos(out, h)
         /\ \A h \in N : \A a \in N \ {h} :
               TrUnder(a, h) =>
                  /\ trOp.order = "in" =>
                        (TrPos(out, a) < TrPos(out, h)) = TrUnder(a, 2 * h)
                  /\ trOp.order = "pre" => TrPos(out, h) < TrPos(out, a)
                  /\ trOp.order = "post" => TrPos(out, a) < TrPos(out, h)

C19_Witness ==
    /\ trTree = TrExample
    /\ trOp.op = "inorder"
    /\ trOp.out = <<4, 2, 5, 1, 3>>

(* ================= merge sort (10_feb_246, 18_feb_547) ================ *)
\* A list is a sequence; element i of the Python list is element i + 1 of
\* the sequence.  An element is <<key, tag>>: the code compares keys only,
\* the tag is the element's place in the input and tells equal keys apart.
MaxSortLen == 4   \* longest generated input

SoTagged(keys) == [i \in 1..Len(keys) |-> <<keys[i], i>>]

SoKeys(items) == [i \in 1..Len(items) |-> items[i][1]]

\* arr of the example usage
SoExample == <<64, 34, 25, 12, 22, 11, 90>>

SoInputs ==
    UNION {[1..n -> Vals] : n \in 0..MaxSortLen} \cup {SoExample}

\* the first while loop of merge (10_feb_246): <<left_index, right_index, merged>>
RECURSIVE mergeBoth(_, _, _, _, _)
mergeBoth(left, right, left_index, right_index, merged) ==
    IF left_index < Len(left) /\ right_index < Len(right)
    THEN IF left[left_index + 1][1] <= right[right_index + 1][1]
         THEN mergeBoth(left, right, left_index + 1, right_index,
                        Append(merged, left[left_index + 1]))
         ELSE mergeBoth(left, right, left_index, right_index + 1,
                        Append(merged, right[right_index + 1]))
    ELSE [left_index |-> left_index, right_index |-> right_index, merged |-> merged]

\* the loops that add the remaining elements of one list
mergeRest(list, index, merged) == merged \o SubSeq(list, index + 1, Len(list))

\* merge with the comparison < in place of <=: ties take from the right
RECURSIVE mergeBothStrict(_, _, _, _, _)
mergeBothStrict(left, right, left_index, right_index, merged) ==
    IF left_index < Len(left) /\ right_index < Len(right)
    THEN IF left[left_index + 1][1] < right[right_index + 1][1]
         THEN mergeBothStrict(left, right, left_index + 1, right_index,
                              Append(merged, left[left_index + 1]))
         ELSE mergeBothStrict(left, right, left_index, right_index + 1,
                              Append(merged, right[right_index + 1]))
    ELSE [left_index |-> left_index, right_index |-> right_index, merged |-> merged]

mergeTakesRightOnTies(left, right) ==
    LET m == mergeBothStrict(left, right, 0, 0, <<>>)
    IN mergeRest(right, m.right_index, mergeRest(left, m.left_index, m.merged))

\* merge without the loop over the rest of the right list
mergeDropsRight(left, right) ==
    LET m == mergeBoth(left, right, 0, 0, <<>>)
    IN mergeRest(left, m.left_index, m.merged)

\* merge of 10_feb_246
merge(left, right) ==
    LET m == mergeBoth(left, right, 0, 0, <<>>)
    IN mergeRest(right, m.right_index, mergeRest(left, m.left_index, m.merged))

\* merge_sort of 10_feb_246
RECURSIVE merge_sort(_)
merge_sort(arr) ==
    IF Len(arr) <= 1 THEN arr
    ELSE LET mid == Len(arr) \div 2
             left_half == merge_sort(SubSeq(arr, 1, mid))
             right_half == merge_sort(SubSeq(arr, mid + 1, Len(arr)))
         IN merge(left_half, right_half)

\* 18_feb_547 pops from the lists merge is given, so its lists are objects:
\* heap[id] is what the list object id holds, a call returns the heap it
\* leaves and the id of the list it returns.

\* the while loop and the extends of merge with >= in place of <=
RECURSIVE mergePopDescending(_, _, _, _)
mergePopDescending(heap, left, right, merged) ==
    IF Len(heap[left]) > 0 /\ Len(heap[right]) > 0
    THEN IF heap[left][1][1] >= heap[right][1][1]
         THEN mergePopDescending([heap EXCEPT ![merged] = Append(@, Head(heap[left])),
                                              ![left] = Tail(@)], left, right, merged)
         ELSE mergePopDescending([heap EXCEPT ![merged] = Append(@, Head(heap[right])),
                                              ![right] = Tail(@)], left, right, merged)
    ELSE [heap EXCEPT ![merged] = (@ \o heap[left]) \o heap[right]]

\* merge of 18_feb_547, lines 32-40: merged.append(left.pop(0)) or
\* merged.append(right.pop(0)) while both hold elements, then the extends
RECURSIVE mergePop(_, _, _, _)
mergePop(heap, left, right, merged) ==
    IF Len(heap[left]) > 0 /\ Len(heap[right]) > 0
    THEN IF heap[left][1][1] <= heap[right][1][1]
         THEN mergePop([heap EXCEPT ![merged] = Append(@, Head(heap[left])),
                                    ![left] = Tail(@)], left, right, merged)
         ELSE mergePop([heap EXCEPT ![merged] = Append(@, Head(heap[right])),
                                    ![right] = Tail(@)], left, right, merged)
    ELSE [heap EXCEPT ![merged] = (@ \o heap[left]) \o heap[right]]

\* merge(left, right) on list objects: merged is a new list
merge_547_on(heap, left, right) ==
    LET merged == Len(heap) + 1
    IN [heap |-> mergePop(Append(heap, <<>>), left, right, merged), ret |-> merged]

merge_547(left, right) ==
    LET c == merge_547_on(<<left, right>>, 1, 2) IN c.heap[c.ret]

\* merge_sort(arr) on list objects: a list of at most one element is
\* returned itself, the two slices are new lists
RECURSIVE merge_sort_547_on(_, _)
merge_sort_547_on(heap, arr) ==
    IF Len(heap[arr]) <= 1 THEN [heap |-> heap, ret |-> arr]
    ELSE LET mid == Len(heap[arr]) \div 2
             h1 == Append(heap, SubSeq(heap[arr], 1, mid))
             left_half == Len(h1)
             h2 == Append(h1, SubSeq(heap[arr], mid + 1, Len(heap[arr])))
             right_half == Len(h2)
             l == merge_sort_547_on(h2, left_half)
             r == merge_sort_547_on(l.heap, right_half)
         IN merge_547_on(r.heap, l.ret, r.ret)

\* merge_sort of 18_feb_547: the list returned
merge_sort_547(arr) ==
    LET c == merge_sort_547_on(<<arr>>, 1) IN c.heap[c.ret]

\* soOp.arg is what the list passed to merge_sort holds after the call
SOInit ==
    /\ \E keys \in SoInputs : soIn = SoTagged(keys)
    /\ soOp = [op |-> "none", out |-> <<>>, arg |-> <<>>]

\* sorted_arr = merge_sort(arr) of 10_feb_246: merge_sort and merge read
\* their lists (len, slices, indexing) and append to merged only
SOSort246 ==
    /\ soOp' = [op |-> "merge_sort", out |-> merge_sort(soIn), arg |-> soIn]
    /\ UNCHANGED soIn

\* sorted_arr = merge_sort(arr) of 18_feb_547
SOSort547 ==
    /\ LET c == merge_sort_547_on(<<soIn>>, 1)
       IN soOp' = [op |-> "merge_sort_547", out |-> c.heap[c.ret], arg |-> c.heap[1]]
    /\ UNCHANGED soIn

(* ----------------------- merge sort: the claims ----------------------- *)
\* C20: merge_sort returns a sequence in non-decreasing order that is a
\* permutation of its input (every input element once), and sorts
\* [64,34,25,12,22,11,90] to [11,12,22,25,34,64,90].
C20_SortedPermutation ==
    soOp.op # "none" =>
        /\ NonDecreasing(SoKeys(soOp.out))
        /\ Len(soOp.out) = Len(soIn)
        /\ \A i \in 1..Len(soIn) : \E j \in 1..Len(soOp.out) : soOp.out[j] = soIn[i]
        /\ SoKeys(soIn) = SoExample => SoKeys(soOp.out) = <<11, 12, 22, 25, 34, 64, 90>>

C20_Witness ==
    /\ soOp.op = "merge_sort"
    /\ SoKeys(soIn) = SoExample
    /\ SoKeys(soOp.out) = <<11, 12, 22, 25, 34, 64, 90>>

SoPos(out, item) == CHOOSE j \in 1..Len(out) : out[j] = item

\* C21: merge_sort is stable: of two input elements with equal keys, the one
\* earlier in the input is earlier in the output.
C21_Stable ==
    soOp.op # "none" =>
        \A i, j \in 1..Len(soIn) :
            (i < j /\ soIn[i][1] = soIn[j][1]) =>
                SoPos(soOp.out, soIn[i]) < SoPos(soOp.out, soIn[j])

\* equal keys in different halves, separated by a smaller key that the sort
\* has to move in front of both
C21_Witness ==
    /\ soOp.op = "merge_sort_547"
    /\ Len(soIn) = 4
    /\ soIn[1][1] = soIn[4][1]
    /\ soIn[3][1] < soIn[1][1]
    /\ SoPos(soOp.out, soIn[1]) + 1 = SoPos(soOp.out, soIn[4])

SoResort(op, list) == IF op = "merge_sort" THEN merge_sort(list) ELSE merge_sort_547(list)

\* C22: sorting the result again returns the result, an input that is
\* already sorted (the empty one included) is returned as it is, and the
\* list passed holds after the call what it held before.
C22_IdempotentArgumentKept ==
    soOp.op # "none" =>
        /\ SoResort(soOp.op, soOp.out) = soOp.out
        /\ NonDecreasing(SoKeys(soIn)) => soOp.out = soIn
        /\ soOp.arg = soIn

\* an unsorted input with a repeated key: merge has popped from its lists
C22_Witness ==
    /\ soOp.op = "merge_sort_547"
    /\ Len(soIn) = 4
    /\ ~NonDecreasing(SoKeys(soIn))
    /\ \E i, j \in 1..4 : i < j /\ soIn[i][1] = soIn[j][1]
    /\ soOp.out # soIn
    /\ soOp.arg = soIn

(* ========================= KMP search (19_feb_977) ==================== *)
\* A string is the sequence of its characters; character i of the Python
\* string is element i + 1.  prefix is a list indexed from 0.
KmMaxText == 5      \* longest generated text
KmMaxPattern == 3   \* longest generated pattern

KmChars == {"a", "b"}

KmTexts == UNION {[1..n -> KmChars] : n \in 0..KmMaxText}

KmPatterns == UNION {[1..n -> KmChars] : n \in 0..KmMaxPattern}

\* text and pattern of the test at the end of the file
KmExampleText == <<"a", "b", "x", "a", "b", "c", "a", "b", "c", "x">>
KmExamplePattern == <<"a", "b", "c", "a", "b", "c">>

\* the while loop left out: j stays where it is on a mismatch
KmFallbackNone(pattern, prefix, j, c) == j

\* while j > 0 and pattern[j] != c: j = prefix[j - 1]   (lines 7-8, 22-23)
RECURSIVE KmFallback(_, _, _, _)
KmFallback(pattern, prefix, j, c) ==
    IF j > 0 /\ pattern[j + 1] # c
    THEN KmFallback(pattern, prefix, prefix[j - 1], c)
    ELSE j

\* the for loop of compute_prefix_function, from i on
RECURSIVE KmPrefixLoop(_, _, _, _)
KmPrefixLoop(pattern, i, j, prefix) ==
    IF i >= Len(pattern) THEN prefix
    ELSE LET j1 == KmFallback(pattern, prefix, j, pattern[i + 1])
             j2 == IF pattern[j1 + 1] = pattern[i + 1] THEN j1 + 1 ELSE j1
         IN KmPrefixLoop(pattern, i + 1, j2, [prefix EXCEPT ![i] = j2])

compute_prefix_function(pattern) ==
    KmPrefixLoop(pattern, 1, 0, Zeros(Len(pattern)))

\* lines 27-29 with j = 0 after a match
KmAfterMatchRestart(prefix, j, m) == IF j = m THEN 0 ELSE j

\* lines 27-29: j after the test for a full match
KmAfterMatch(prefix, j, m) == IF j = m THEN prefix[j - 1] ELSE j

\* the for loop of kmp_search, from i on; out is the sequence of the indices
\* printed.  pattern[j] of an empty pattern raises IndexError.
RECURSIVE KmSearchLoop(_, _, _, _, _, _)
KmSearchLoop(text, pattern, prefix, i, j, out) ==
    IF i >= Len(text) THEN [out |-> out, err |-> "none"]
    ELSE LET m == Len(pattern)
             j1 == KmFallback(pattern, prefix, j, text[i + 1])
         IN IF j1 >= m THEN [out |-> out, err |-> "IndexError"]
            ELSE LET j2 == IF pattern[j1 + 1] = text[i + 1] THEN j1 + 1 ELSE j1
                 IN KmSearchLoop(text, pattern, prefix, i + 1, KmAfterMatch(prefix, j2, m),
                                 IF j2 = m THEN Append(out, i - m + 1) ELSE out)

kmp_search(text, pattern) ==
    KmSearchLoop(text, pattern, compute_prefix_function(pattern), 0, 0, <<>>)

KMInit ==
    /\ \/ kmText \in KmTexts /\ kmPattern \in KmPatterns
       \/ kmText = KmExampleText /\ kmPattern = KmExamplePattern
    /\ kmOp = [op |-> "none", out |-> <<>>, err |-> "none"]

KMSearch ==
    /\ LET r == kmp_search(kmText, kmPattern)
       IN kmOp' = [op |-> "kmp_search", out |-> r.out, err |-> r.err]
    /\ UNCHANGED <<kmText, kmPattern>>

KMPrefix ==
    /\ kmOp' = [op |-> "compute_prefix_function",
                out |-> compute_prefix_function(kmPattern), err |-> "none"]
    /\ UNCHANGED <<kmText, kmPattern>>

(* ------------------------ KMP search: the claims ---------------------- *)
\* the pattern occurs in the text at index i (counted from 0)
KmOccursAt(i) ==
    /\ i >= 0
    /\ i + Len(kmPattern) <= Len(kmText)
    /\ \A k \in 1..Len(kmPattern) : kmText[i + k] = kmPattern[k]

\* C23: for a non-empty pattern kmp_search reports exactly the indices at
\* which the pattern occurs in the text, in increasing order and once each,
\* overlapping occurrences included; "abcabc" in "abxabcabcx" is reported
\* at index 3 only.
C23_ReportsEveryOccurrence ==
    (kmOp.op = "kmp_search" /\ Len(kmPattern) > 0) =>
        /\ kmOp.err = "none"
        /\ \A a, b \in 1..Len(kmOp.out) : a < b => kmOp.out[a] < kmOp.out[b]
        /\ {kmOp.out[a] : a \in 1..Len(kmOp.out)} = {i \in 0..Len(kmText) : KmOccursAt(i)}
        /\ (kmText = KmExampleText /\ kmPattern = KmExamplePattern) => kmOp.out = <<3>>

\* two occurrences that overlap
C23_Witness ==
    /\ kmOp.op = "kmp_search"
    /\ Len(kmPattern) = 3
    /\ Len(kmOp.out) >= 2
    /\ kmOp.out[2] - kmOp.out[1] = 2
    /\ kmPattern[1] # kmPattern[2]

\* the longest proper prefix of pattern[0..i] that is also its suffix
KmBorder(i) ==
    LET ks == {k \in 0..i : \A t \in 1..k : kmPattern[t] = kmPattern[i + 1 - k + t]}
    IN CHOOSE k \in ks : \A k2 \in ks : k2 <= k

\* C24: compute_prefix_function returns a list of the pattern's length whose
\* entry i is the length of the longest proper prefix of pattern[0..i] that
\* is also a suffix of it; so prefix[0] = 0 and 0 <= prefix[i] <= i.
C24_PrefixFunction ==
    kmOp.op = "compute_prefix_function" =>
        /\ DOMAIN kmOp.out = 0..(Len(kmPattern) - 1)
        /\ \A i \in DOMAIN kmOp.out :
              /\ kmOp.out[i] = KmBorder(i)
              /\ kmOp.out[i] >= 0 /\ kmOp.out[i] <= i
        /\ Len(kmPattern) > 0 => kmOp.out[0] = 0

\* a mismatch after a matched prefix: the while loop runs
C24_Witness ==
    /\ kmOp.op = "compute_prefix_function"
    /\ kmPattern = <<"a", "a", "b">>
    /\ kmOp.out[1] = 1
    /\ kmOp.out[2] = 0

(* ====================== chained HashMap (18_feb_458) ================== *)
\* self.map is a list of size buckets; a bucket is the sequence of the
\* <<key, value>> nodes of its linked list, <<>> for None.  Keys are small
\* non-negative integers, whose hash is the integer itself.  get returns
\* <<value>>, or <<>> for None.
HmMaxEntries == 3    \* put is offered while the map holds fewer nodes

HmKeys == {0, 1, 2, 3}
HmValues == {1, 2}
HmSizes == {1, 2}    \* size = 1: every key lands in the same bucket

\* HashMap.__init__
HashMap_new(size) == [i \in 0..(size - 1) |-> <<>>]

\* HashMap._hash
HashMap_hash(size, key) ==
    LET h == key % size IN IF h < 0 THEN -h ELSE h

\* HashMap.put: a new node in an empty bucket, else a new node after the
\* last node of the chain
HashMap_put(map, size, key, value) ==
    LET index == HashMap_hash(size, key) IN
    IF map[index] = <<>>
    THEN [map EXCEPT ![index] = <<<<key, value>>>>]
    ELSE [map EXCEPT ![index] = Append(@, <<key, value>>)]

\* the while loop of get, from node n of the chain on
RECURSIVE HmGetLoop(_, _, _)
HmGetLoop(chain, n, key) ==
    IF n > Len(chain) THEN <<>>
    ELSE IF chain[n][1] = key THEN <<chain[n][2]>>
    ELSE HmGetLoop(chain, n + 1, key)

\* HashMap.get
HashMap_get(map, size, key) ==
    LET index == HashMap_hash(size, key) IN
    IF map[index] = <<>> THEN <<>> ELSE HmGetLoop(map[index], 1, key)

\* the while loop of delete: node and prev_node are places in the chain;
\* prev_node.next = node.next.next leaves the nodes up to prev_node and the
\* nodes after node.next
RECURSIVE HmDeleteLoop(_, _, _, _)
HmDeleteLoop(chain, node, prev_node, key) ==
    IF node >= Len(chain) THEN chain
    ELSE IF chain[node + 1][1] = key
         THEN SubSeq(chain, 1, prev_node) \o SubSeq(chain, node + 2, Len(chain))
         ELSE HmDeleteLoop(chain, node + 1, node, key)

\* HashMap.delete
HashMap_delete(map, size, key) ==
    LET index == HashMap_hash(size, key) IN
    IF map[index] = <<>> THEN map
    ELSE IF map[index][1][1] = key THEN [map EXCEPT ![index] = Tail(@)]
    ELSE [map EXCEPT ![index] = HmDeleteLoop(@, 1, 1, key)]

HmEntries(map) ==
    LET RECURSIVE Sum(_)
        Sum(S) == IF S = {} THEN 0
                  ELSE LET i == CHOOSE j \in S : TRUE IN Len(map[i]) + Sum(S \ {i})
    IN Sum(DOMAIN map)

\* hmRef is the reference dictionary: for every key, <<v>> for the value of
\* its latest put not followed by a delete, <<>> when there is none
HMInit ==
    /\ hmSize \in HmSizes
    /\ hmMap = HashMap_new(hmSize)
    /\ hmRef = [k \in HmKeys |-> <<>>]
    /\ hmOp = [op |-> "new", key |-> 0, value |-> 0, ret |-> <<>>]

HMPut ==
    /\ HmEntries(hmMap) < HmMaxEntries
    /\ \E key \in HmKeys, value \in HmValues :
          /\ hmMap' = HashMap_put(hmMap, hmSize, key, value)
          /\ hmRef' = [hmRef EXCEPT ![key] = <<value>>]
          /\ hmOp' = [op |-> "put", key |-> key, value |-> value, ret |-> <<>>]
    /\ UNCHANGED hmSize

HMGet ==
    /\ \E key \in HmKeys :
          hmOp' = [op |-> "get", key |-> key, value |-> 0,
                   ret |-> HashMap_get(hmMap, hmSize, key)]
    /\ UNCHANGED <<hmSize, hmMap, hmRef>>

HMDelete ==
    /\ \E key \in HmKeys :
          /\ hmMap' = HashMap_delete(hmMap, hmSize, key)
          /\ hmRef' = [hmRef EXCEPT ![key] = <<>>]
          /\ hmOp' = [op |-> "delete", key |-> key, value |-> 0, ret |-> <<>>]
    /\ UNCHANGED hmSize

(* ==================== SimpleHashMap (12_feb_730) ====================== *)
\* self.map is a list of size slots; a slot is <<key, value>>, or <<>> for
\* None.  The keys are those of the example usage.
ShKeys == {"name", "age", "city"}
ShValues == {1, 2}
ShSizes == {1, 10}   \* 10 is the size of the example usage

\* int(hashlib.sha256(str(key).encode()).hexdigest(), 16) modulo 10, for the
\* keys above; the index is this modulo size, for the sizes that divide 10
ShDigest == [k \in ShKeys |-> IF k = "city" THEN 7 ELSE 3]

\* SimpleHashMap.__init__
SimpleHashMap_new(size) == [i \in 0..(size - 1) |-> <<>>]

\* SimpleHashMap._hash
SimpleHashMap_hash(size, key) == ShDigest[key] % size

\* SimpleHashMap.put: both branches store the pair in the slot
SimpleHashMap_put(map, size, key, value) ==
    LET index == SimpleHashMap_hash(size, key) IN
    IF map[index] # <<>>
    THEN [map EXCEPT ![index] = <<key, value>>]
    ELSE [map EXCEPT ![index] = <<key, value>>]

\* SimpleHashMap.get
SimpleHashMap_get(map, size, key) ==
    LET index == SimpleHashMap_hash(size, key) IN
    IF map[index] # <<>> /\ map[index][1] = key THEN <<map[index][2]>> ELSE <<>>

\* SimpleHashMap.delete
SimpleHashMap_delete(map, size, key) ==
    LET index == SimpleHashMap_hash(size, key) IN
    IF map[index] # <<>> /\ map[index][1] = key
    THEN [map EXCEPT ![index] = <<>>]
    ELSE map

\* shRef is the reference dictionary, as hmRef
SHInit ==
    /\ shSize \in ShSizes
    /\ shMap = SimpleHashMap_new(shSize)
    /\ shRef = [k \in ShKeys |-> <<>>]
    /\ shOp = [op |-> "new", key |-> "", value |-> 0, ret |-> <<>>]

SHPut ==
    /\ \E key \in ShKeys, value \in ShValues :
          /\ shMap' = SimpleHashMap_put(shMap, shSize, key, value)
          /\ shRef' = [shRef EXCEPT ![key] = <<value>>]
          /\ shOp' = [op |-> "put", key |-> key, value |-> value, ret |-> <<>>]
    /\ UNCHANGED shSize

SHGet ==
    /\ \E key \in ShKeys :
          shOp' = [op |-> "get", key |-> key, value |-> 0,
                   ret |-> SimpleHashMap_get(shMap, shSize, key)]
    /\ UNCHANGED <<shSize, shMap, shRef>>

SHDelete ==
    /\ \E key \in ShKeys :
          /\ shMap' = SimpleHashMap_delete(shMap, shSize, key)
          /\ shRef' = [shRef EXCEPT ![key] = <<>>]
          /\ shOp' = [op |-> "delete", key |-> key, value |-> 0, ret |-> <<>>]
    /\ UNCHANGED shSize

(* ------------------------ hash maps: the claims ----------------------- *)
\* the nodes of the chained map that carry key k
HmNodesOf(k) ==
    LET chain == hmMap[HashMap_hash(hmSize, k)]
    IN {n \in 1..Len(chain) : chain[n][1] = k}

\* C29: in both hash maps, after any puts and deletes (colliding keys
\* included) get(k) returns the value of the latest put(k, v) not followed by
\* delete(k), None when there is none; a put on a key that is present
\* updates its value and adds no second entry.
C29_GetReturnsLatestPut ==
    /\ hmOp.op = "get" => hmOp.ret = hmRef[hmOp.key]
    /\ hmOp.op # "none" => \A k \in HmKeys : Cardinality(HmNodesOf(k)) <= 1
    /\ shOp.op = "get" => shOp.ret = shRef[shOp.key]

\* C30: HashMap.delete(k) leaves get(j) of every other key j as it was,
\* wherever k is in its chain; deleting an absent key changes nothing.
C30_DeleteLeavesOthers ==
    [][ hmOp'.op = "delete" =>
          /\ \A j \in HmKeys \ {hmOp'.key} :
                HashMap_get(hmMap', hmSize, j) = HashMap_get(hmMap, hmSize, j)
          /\ HashMap_get(hmMap, hmSize, hmOp'.key) = <<>> => hmMap' = hmMap ]_vars

(* ============ structures at rest (filled in section by section) ====== *)
MSIdle ==
    /\ msStack = <<>>
    /\ msPopped = FALSE
    /\ msOp = [op |-> "new", val |-> 0, before |-> <<>>, ret |-> <<>>, err |-> "none"]

DJIdle ==
    /\ djGraph = <<>>
    /\ djStart = 0
    /\ djDist = <<>>
    /\ djPrev = <<>>
    /\ djPrevBound = FALSE
    /\ djPq = {}
    /\ djState = "absent"
    /\ djExpanded = {}

BFIdle ==
    /\ bfGraph = <<>>
    /\ bfStart = 0
    /\ bfQueue = <<>>
    /\ bfVisited = {}
    /\ bfOut = <<>>
    /\ bfState = "absent"

TRIdle ==
    /\ trTree = <<>>
    /\ trOp = [op |-> "none", order |-> "none", out |-> <<>>]

SOIdle ==
    /\ soIn = <<>>
    /\ soOp = [op |-> "none", out |-> <<>>, arg |-> <<>>]

KMIdle ==
    /\ kmText = <<>>
    /\ kmPattern = <<>>
    /\ kmOp = [op |-> "none", out |-> <<>>, err |-> "none"]

HMIdle ==
    /\ hmSize = 0
    /\ hmMap = <<>>
    /\ hmRef = <<>>
    /\ hmOp = [op |-> "none", key |-> 0, value |-> 0, ret |-> <<>>]

SHIdle ==
    /\ shSize = 0
    /\ shMap = <<>>
    /\ shRef = <<>>
    /\ shOp = [op |-> "none", key |-> "", value |-> 0, ret |-> <<>>]

(* ========================== specifications ============================ *)
\* Each structure is used on its own: a specification runs one of them and
\* leaves the variables of the others at rest.
IdleExcept(c) ==
    /\ IF c = "uf" THEN TRUE ELSE UFIdle
    /\ IF c = "mt" THEN TRUE ELSE MTIdle
    /\ IF c = "st" THEN TRUE ELSE STIdle
    /\ IF c = "ms" THEN TRUE ELSE MSIdle
    /\ IF c = "dj" THEN TRUE ELSE DJIdle
    /\ IF c = "bf" THEN TRUE ELSE BFIdle
    /\ IF c = "tr" THEN TRUE ELSE TRIdle
    /\ IF c = "so" THEN TRUE ELSE SOIdle
    /\ IF c = "km" THEN TRUE ELSE KMIdle
    /\ IF c = "hm" THEN TRUE ELSE HMIdle
    /\ IF c = "sh" THEN TRUE ELSE SHIdle

Frozen(c) ==
    /\ IF c = "uf" THEN TRUE ELSE UNCHANGED ufVars
    /\ IF c = "mt" THEN TRUE ELSE UNCHANGED mtVars
    /\ IF c = "st" THEN TRUE ELSE UNCHANGED stVars
    /\ IF c = "ms" THEN TRUE ELSE UNCHANGED msVars
    /\ IF c = "dj" THEN TRUE ELSE UNCHANGED djVars
    /\ IF c = "bf" THEN TRUE ELSE UNCHANGED bfVars
    /\ IF c = "tr" THEN TRUE ELSE UNCHANGED trVars
    /\ IF c = "so" THEN TRUE ELSE UNCHANGED soVars
    /\ IF c = "km" THEN TRUE ELSE UNCHANGED kmVars
    /\ IF c = "hm" THEN TRUE ELSE UNCHANGED hmVars
    /\ IF c = "sh" THEN TRUE ELSE UNCHANGED shVars

QueryInside == MTQuery(FALSE) /\ Frozen("mt")
QueryAnywhere == MTQuery(TRUE) /\ Frozen("mt")

NextMT == QueryInside
NextMTAny == QueryAnywhere

InitMT == MTInit /\ IdleExcept("mt")

SumQuery == STQuery /\ Frozen("st")
SumUpdate == STUpdate /\ Frozen("st")

NextST == SumQuery \/ SumUpdate

InitST == STInit /\ IdleExcept("st")

\* the sum tree: construction, then queries and updates
SpecST == InitST /\ [][NextST]_vars

\* queries inside the array
SpecMT == InitMT /\ [][NextMT]_vars
\* queries anywhere
SpecMTAny == InitMT /\ [][NextMTAny]_vars

FindValid == UFFind(FALSE) /\ Frozen("uf")
UnionValid == UFUnion(FALSE) /\ Frozen("uf")
FindAny == UFFind(TRUE) /\ Frozen("uf")
UnionAny == UFUnion(TRUE) /\ Frozen("uf")

NextUF == FindValid \/ UnionValid
NextUFAny == FindAny \/ UnionAny

InitUF == UFInit /\ IdleExcept("uf")

\* callers that keep to ids 0..n-1
SpecUF == InitUF /\ [][NextUF]_vars
\* callers that pass any id
SpecUFAny == InitUF /\ [][NextUFAny]_vars

Push == MSPush /\ Frozen("ms")
Pop == MSPop /\ Frozen("ms")
IsEmpty == MSIsEmpty /\ Frozen("ms")

NextMS == Push \/ Pop \/ IsEmpty

InitMS == MSInit /\ IdleExcept("ms")

\* the monotonic stack under any interleaving of its operations
SpecMS == InitMS /\ [][NextMS]_vars

Iterate == DJIterate /\ Frozen("dj")
Return == DJReturn /\ Frozen("dj")

NextDJ == Iterate \/ Return

InitDJ == DJInit /\ IdleExcept("dj")

\* one call of dijkstra, an iteration of its loop at a time
SpecDJ == InitDJ /\ [][NextDJ]_vars

Visit == BFVisit /\ Frozen("bf")
BfsReturn == BFReturn /\ Frozen("bf")

NextBF == Visit \/ BfsReturn

InitBF == BFInit(FALSE) /\ IdleExcept("bf")
InitBFAny == BFInit(TRUE) /\ IdleExcept("bf")

\* one call of bfs_traversal from a node of the graph
SpecBF == InitBF /\ [][NextBF]_vars

\* one call of bfs_traversal from any start, absent ones included
SpecBFAny == InitBFAny /\ [][NextBF]_vars

Inorder == TRInorder /\ Frozen("tr")
Preorder == TRPreorder /\ Frozen("tr")
Postorder == TRPostorder /\ Frozen("tr")
InorderTraversal == TRInorderTraversal /\ Frozen("tr")
PreorderTraversal == TRPreorderTraversal /\ Frozen("tr")
PostorderTraversal == TRPostorderTraversal /\ Frozen("tr")

NextTR ==
    \/ Inorder \/ Preorder \/ Postorder
    \/ InorderTraversal \/ PreorderTraversal \/ PostorderTraversal

InitTR == TRInit /\ IdleExcept("tr")

\* traversals of one tree, in any order
SpecTR == InitTR /\ [][NextTR]_vars

Sort246 == SOSort246 /\ Frozen("so")
Sort547 == SOSort547 /\ Frozen("so")

NextSO == Sort246 \/ Sort547

InitSO == SOInit /\ IdleExcept("so")

\* calls of the two merge_sort functions on one input
SpecSO == InitSO /\ [][NextSO]_vars

Search == KMSearch /\ Frozen("km")
Prefix == KMPrefix /\ Frozen("km")

NextKM == Search \/ Prefix

InitKM == KMInit /\ IdleExcept("km")

\* calls of kmp_search and compute_prefix_function on one text and pattern
SpecKM == InitKM /\ [][NextKM]_vars

HashMapPut == HMPut /\ Frozen("hm")
HashMapGet == HMGet /\ Frozen("hm")
HashMapDelete == HMDelete /\ Frozen("hm")

NextHM == HashMapPut \/ HashMapGet \/ HashMapDelete

InitHM == HMInit /\ IdleExcept("hm")

\* puts, gets and deletes on one chained HashMap
SpecHM == InitHM /\ [][NextHM]_vars

SimplePut == SHPut /\ Frozen("sh")
SimpleGet == SHGet /\ Frozen("sh")
SimpleDelete == SHDelete /\ Frozen("sh")

NextSH == SimplePut \/ SimpleGet \/ SimpleDelete

InitSH == SHInit /\ IdleExcept("sh")

\* puts, gets and deletes on one SimpleHashMap
SpecSH == InitSH /\ [][NextSH]_vars

====
